---------------------------- MODULE Spec2Model ----------------------------
(***************************************************************************)
(* Model of scripts/build_din8580_chart.py: the extraction of class        *)
(* declarations from an OWL document (parse_owl, parse_preferred_label,    *)
(* extract_fragment, extract_level_metadata), the forest construction      *)
(* (build_forest with its nested render) and the driver run.               *)
(*                                                                         *)
(* Strings are sequences of code points, so that str.lower, str.strip,     *)
(* str.split, rsplit, the regular expression and the ordering of sort keys *)
(* are computed and not assumed.  Python's None is the value None below.   *)
(***************************************************************************)
EXTENDS Integers, Sequences, FiniteSets, TLC

VARIABLES pc, doc, hashseed, nodes, edges, children_by_parent, parent_count,
          roots, seen, stack, forest, edge_count, out_file, arg, ret

vars == <<pc, doc, hashseed, nodes, edges, children_by_parent, parent_count,
          roots, seen, stack, forest, edge_count, out_file, arg, ret>>

runvars == <<doc, hashseed, nodes, edges, children_by_parent, parent_count,
             roots, seen, stack, forest, edge_count, out_file>>

(***************************************************************************)
(* Characters and strings                                                  *)
(***************************************************************************)
\* Python None: a value no string equals (code points are never negative).
None == << -1 >>

SP == 32
TAB == 9
HASH == 35
DOT == 46
SLASH == 47
USCORE == 95

\* "not x" for x a string or None
Falsy(x) == x = None \/ x = <<>>

\* str.isspace for the characters of the model (ASCII whitespace)
IsSpace(c) == c \in {9, 10, 11, 12, 13, 32}

IsDigit(c) == c \in 48..57

\* \w of the re module for the characters of the model
IsWordChar(c) == IsDigit(c) \/ c \in 65..90 \/ c \in 97..122 \/ c = USCORE

\* str.lower, character by character (ASCII letters)
LowerChar(c) == IF c \in 65..90 THEN c + 32 ELSE c

Lower(s) == [i \in 1..Len(s) |-> LowerChar(s[i])]

RECURSIVE LStrip(_)
LStrip(s) == IF s # <<>> /\ IsSpace(Head(s)) THEN LStrip(Tail(s)) ELSE s

RECURSIVE RStrip(_)
RStrip(s) == IF s # <<>> /\ IsSpace(s[Len(s)]) THEN RStrip(SubSeq(s, 1, Len(s) - 1)) ELSE s

\* str.strip()
Strip(s) == RStrip(LStrip(s))

\* str.split(): the maximal runs of non-whitespace characters, in order
RECURSIVE SplitWS(_)
SplitWS(s) ==
    LET t == LStrip(s)
        RECURSIVE WordEnd(_)
        WordEnd(k) == IF k < Len(t) /\ ~IsSpace(t[k + 1]) THEN WordEnd(k + 1) ELSE k
    IN  IF t = <<>> THEN <<>>
        ELSE <<SubSeq(t, 1, WordEnd(1))>> \o SplitWS(SubSeq(t, WordEnd(1) + 1, Len(t)))

\* " ".join(words)
RECURSIVE JoinSpace(_)
JoinSpace(words) ==
    IF words = <<>> THEN <<>>
    ELSE IF Len(words) = 1 THEN words[1]
    ELSE words[1] \o <<SP>> \o JoinSpace(Tail(words))

\* the largest index of character c in s, 0 when c does not occur
LastIndexOf(s, c) ==
    LET hits == {i \in 1..Len(s) : s[i] = c}
    IN  IF hits = {} THEN 0 ELSE CHOOSE i \in hits : \A j \in hits : j <= i

\* s.rstrip("/")
RECURSIVE RStripSlash(_)
RStripSlash(s) ==
    IF s # <<>> /\ s[Len(s)] = SLASH THEN RStripSlash(SubSeq(s, 1, Len(s) - 1)) ELSE s

\* s.rsplit(c, 1)[-1]: the text after the last c, the whole of s without any c
AfterLast(s, c) == SubSeq(s, LastIndexOf(s, c) + 1, Len(s))

\* lexicographic order of two sequences of integers (Python's < on str and tuple)
RECURSIVE SeqLess(_, _)
SeqLess(a, b) ==
    IF b = <<>> THEN FALSE
    ELSE IF a = <<>> THEN TRUE
    ELSE IF Head(a) # Head(b) THEN Head(a) < Head(b)
    ELSE SeqLess(Tail(a), Tail(b))

\* the concatenation of a sequence of sequences
RECURSIVE Concat(_)
Concat(ss) == IF ss = <<>> THEN <<>> ELSE Head(ss) \o Concat(Tail(ss))


(***************************************************************************)
(* extract_fragment, humanize_fragment                                     *)
(***************************************************************************)
extract_fragment(iri) ==
    IF \E i \in 1..Len(iri) : iri[i] = HASH
    THEN AfterLast(iri, HASH)
    ELSE AfterLast(RStripSlash(iri), SLASH)

humanize_fragment(fragment) ==
    Strip([i \in 1..Len(fragment) |-> IF fragment[i] = USCORE THEN SP ELSE fragment[i]])

(***************************************************************************)
(* extract_level_metadata                                                  *)
(***************************************************************************)
kwHauptgruppe == <<104, 97, 117, 112, 116, 103, 114, 117, 112, 112, 101>>
kwGruppe == <<103, 114, 117, 112, 112, 101>>
kwUntergruppe == <<117, 110, 116, 101, 114, 103, 114, 117, 112, 112, 101>>

tyHauptgruppe == <<72>> \o Tail(kwHauptgruppe)
tyGruppe == <<71>> \o Tail(kwGruppe)
tyUntergruppe == <<85>> \o Tail(kwUntergruppe)

\* the alternation (Hauptgruppe|Gruppe|Untergruppe), in the order it is tried
Alternation == <<kwHauptgruppe, kwGruppe, kwUntergruppe>>

IsWordAt(s, k) == k \in 1..Len(s) /\ IsWordChar(s[k])

\* \b before position p (between s[p-1] and s[p])
WordBoundary(s, p) == IsWordAt(s, p - 1) # IsWordAt(s, p)

\* a literal of the pattern at position p, under re.IGNORECASE
LiteralAt(s, p, lit) ==
    /\ p + Len(lit) - 1 <= Len(s)
    /\ Lower(SubSeq(s, p, p + Len(lit) - 1)) = lit

\* the end of the longest run of characters satisfying a class from position p
\* (p - 1 when s[p] is not in the class)
RECURSIVE SpaceRunEnd(_, _)
SpaceRunEnd(s, p) == IF p <= Len(s) /\ IsSpace(s[p]) THEN SpaceRunEnd(s, p + 1) ELSE p - 1

RECURSIVE DigitRunEnd(_, _)
DigitRunEnd(s, p) == IF p <= Len(s) /\ IsDigit(s[p]) THEN DigitRunEnd(s, p + 1) ELSE p - 1

\* The tail of the pattern, [0-9]+(?:\.[0-9]+)*\b, as the backtracking matcher
\* runs it: every quantifier takes as much as it can and gives back one
\* character (or one repetition) at a time when what follows fails.  The value is
\* the end of the match, 0 when there is none.
RECURSIVE MatchDigits(_, _, _)
RECURSIVE MatchGroups(_, _)
\* the first attempt when it matched, the next one otherwise
OrElse(first, next) == IF first # 0 THEN first ELSE next

MatchDigits(s, from, to) ==
    IF to < from THEN 0
    ELSE OrElse(MatchGroups(s, to + 1), MatchDigits(s, from, to - 1))

MatchGroups(s, p) ==
    OrElse(IF p + 1 <= Len(s) /\ s[p] = DOT /\ IsDigit(s[p + 1])
           THEN MatchDigits(s, p + 1, DigitRunEnd(s, p + 1))
           ELSE 0,
           IF WordBoundary(s, p) THEN p - 1 ELSE 0)

\* \s* followed by the tail: from the longest run of whitespace down to none
RECURSIVE MatchSpaces(_, _, _)
MatchSpaces(s, from, to) ==
    \* to: the last whitespace character taken (from - 1: none)
    LET Number(e) ==
            IF e # 0 THEN [numFrom |-> to + 1, numTo |-> e]
            ELSE IF to >= from THEN MatchSpaces(s, from, to - 1)
            ELSE [numFrom |-> 0, numTo |-> 0]
    IN  Number(MatchDigits(s, to + 1, DigitRunEnd(s, to + 1)))

\* the pattern tried at position p: \b, then each alternative in turn
RECURSIVE MatchAltFrom(_, _, _)
MatchAltFrom(s, p, k) ==
    IF k > Len(Alternation) THEN [found |-> FALSE]
    ELSE LET lit == Alternation[k]
             q == p + Len(lit)
             Groups(m) ==
                 IF m.numTo # 0
                 THEN [found |-> TRUE, group1 |-> SubSeq(s, p, q - 1),
                       group2 |-> SubSeq(s, m.numFrom, m.numTo)]
                 ELSE MatchAltFrom(s, p, k + 1)
         IN  Groups(IF LiteralAt(s, p, lit)
                    THEN MatchSpaces(s, q, SpaceRunEnd(s, q))
                    ELSE [numFrom |-> 0, numTo |-> 0])

\* the pattern without its leading \b
MatchAtUnanchored(s, p) == MatchAltFrom(s, p, 1)

MatchAt(s, p) ==
    IF WordBoundary(s, p) THEN MatchAltFrom(s, p, 1) ELSE [found |-> FALSE]

\* pattern.search: the match at the leftmost position that has one
RECURSIVE SearchFrom(_, _)
SearchFrom(s, p) ==
    IF p > Len(s) + 1 THEN [found |-> FALSE]
    ELSE LET Found(m) == IF m.found THEN m ELSE SearchFrom(s, p + 1)
         IN  Found(MatchAt(s, p))

\* lines 102-108
LevelType(raw_type) ==
    IF raw_type = kwHauptgruppe THEN tyHauptgruppe
    ELSE IF raw_type = kwUntergruppe THEN tyUntergruppe
    ELSE tyGruppe

\* lines 99-109
LevelOfMatch(match) ==
    IF ~match.found THEN <<None, None>>
    ELSE <<match.group2, LevelType(Lower(match.group1))>>

\* lines 91-98
LevelOfNormalized(normalized) ==
    IF normalized = <<>> THEN <<None, None>>
    ELSE LevelOfMatch(SearchFrom(normalized, 1))

extract_level_metadata(comment) ==
    LevelOfNormalized(JoinSpace(SplitWS(IF Falsy(comment) THEN <<>> ELSE comment)))

(***************************************************************************)
(* parse_preferred_label                                                   *)
(***************************************************************************)
langDe == <<100, 101>>

\* (lbl.text or "").strip()
LabelText(lbl) == Strip(IF Falsy(lbl.text) THEN <<>> ELSE lbl.text)

\* lbl.attrib.get(xml:lang) or "", lowercased
LabelLangNoLower(lbl) == IF Falsy(lbl.lang) THEN <<>> ELSE lbl.lang

LabelLang(lbl) == Lower(IF Falsy(lbl.lang) THEN <<>> ELSE lbl.lang)

\* the first loop: the first label tagged "de" with text, None when the loop ends
RECURSIVE FirstGermanLabel(_)
FirstGermanLabel(labels) ==
    IF labels = <<>> THEN None
    ELSE IF LabelLang(Head(labels)) = langDe /\ LabelText(Head(labels)) # <<>>
    THEN LabelText(Head(labels))
    ELSE FirstGermanLabel(Tail(labels))

\* the second loop: the first label with text
RECURSIVE FirstAnyLabel(_)
FirstAnyLabel(labels) ==
    IF labels = <<>> THEN None
    ELSE IF LabelText(Head(labels)) # <<>> THEN LabelText(Head(labels))
    ELSE FirstAnyLabel(Tail(labels))

\* the value a loop returned, what follows the loop when it returned nothing
Returned(value, otherwise) == IF value # None THEN value ELSE otherwise

parse_preferred_label(labels, fallback_fragment) ==
    Returned(FirstGermanLabel(labels),
             Returned(FirstAnyLabel(labels), humanize_fragment(fallback_fragment)))


(***************************************************************************)
(* parse_owl                                                               *)
(*                                                                         *)
(* A document is [wellformed, classes]; a class element is                 *)
(* [about, labels, comment, subs]: the rdf:about attribute (None when      *)
(* absent), its rdfs:label children as [lang, text], the text of its first *)
(* rdfs:comment child (None when there is none) and the rdf:resource       *)
(* attribute of each rdfs:subClassOf child (None when absent).             *)
(* The dict nodes is the sequence of its values in insertion order.        *)
(***************************************************************************)
Range(f) == {f[i] : i \in DOMAIN f}

Keys(d) == {d[i].id : i \in DOMAIN d}

\* d[key], for key in d
Get(d, key) == d[CHOOSE i \in DOMAIN d : d[i].id = key]

\* d[node.id] = node: a new key goes last, a known key keeps its place
Put(d, node) ==
    IF node.id \in Keys(d)
    THEN [i \in DOMAIN d |-> IF d[i].id = node.id THEN node ELSE d[i]]
    ELSE Append(d, node)

\* lines 146-159: the NodeBase of one class element
NodeRecord(class_iri, label, fragment, level) ==
    [id |-> class_iri, label |-> label, raw_fragment |-> fragment,
     level_number |-> level[1], level_type |-> level[2]]

NodeOfFragment(class_el, fragment) ==
    NodeRecord(class_el.about,
               parse_preferred_label(class_el.labels, fragment),
               fragment,
               extract_level_metadata(IF Falsy(class_el.comment) THEN <<>>
                                      ELSE class_el.comment))

NodeBase(class_el) == NodeOfFragment(class_el, extract_fragment(class_el.about))

\* lines 161-164: one raw edge for every subClassOf that has a resource
RECURSIVE RawEdges(_, _)
RawEdges(child, subs) ==
    IF subs = <<>> THEN <<>>
    ELSE (IF Falsy(Head(subs)) THEN <<>> ELSE <<(<<child, Head(subs)>>)>>)
         \o RawEdges(child, Tail(subs))

\* lines 141-164: the loop over the class elements, in document order
RECURSIVE ExtractClasses(_, _, _)
ExtractClasses(classes, ns, es) ==
    IF classes = <<>> THEN [nodes |-> ns, edges |-> es]
    ELSE LET class_el == Head(classes)
         IN  IF Falsy(class_el.about)
             THEN ExtractClasses(Tail(classes), ns, es)
             ELSE ExtractClasses(Tail(classes), Put(ns, NodeBase(class_el)),
                                 es \o RawEdges(class_el.about, class_el.subs))

\* line 166: the edges with both ends among the identities ids
KnownEdges(es, ids) ==
    LET Valid(e) == e[1] \in ids /\ e[2] \in ids
    IN  SelectSeq(es, Valid)

\* a filter applied while the classes are read: only what is declared so far
RECURSIVE ExtractFilteringEarly(_, _, _)
ExtractFilteringEarly(classes, ns, es) ==
    IF classes = <<>> THEN [nodes |-> ns, edges |-> es]
    ELSE LET class_el == Head(classes)
         IN  IF Falsy(class_el.about)
             THEN ExtractFilteringEarly(Tail(classes), ns, es)
             ELSE ExtractFilteringEarly(Tail(classes), Put(ns, NodeBase(class_el)),
                      es \o KnownEdges(RawEdges(class_el.about, class_el.subs),
                                       Keys(ns) \cup {class_el.about}))

parse_owl_early(classes) == ExtractFilteringEarly(classes, <<>>, <<>>)

\* lines 166-167
ValidEdges(raw) == [nodes |-> raw.nodes, edges |-> KnownEdges(raw.edges, Keys(raw.nodes))]

\* lines 138-167
parse_owl(classes) == ValidEdges(ExtractClasses(classes, <<>>, <<>>))

(***************************************************************************)
(* build_forest: the index, the sort key, the roots                        *)
(***************************************************************************)
\* lines 171-176
ChildrenByParent(es) ==
    [p \in {e[2] : e \in Range(es)} |-> {e[1] : e \in {x \in Range(es) : x[2] = p}}]

ParentCount(es) ==
    [c \in {e[1] : e \in Range(es)} |-> Cardinality({i \in DOMAIN es : es[i][1] = c})]

\* parent_count[node_id] of the defaultdict(int)
CountOf(pcount, node_id) == IF node_id \in DOMAIN pcount THEN pcount[node_id] ELSE 0

\* children_by_parent.get(node_id, set())
ChildrenOf(cbp, node_id) == IF node_id \in DOMAIN cbp THEN cbp[node_id] ELSE {}

Sentinel == 1000000000

\* level.split(".")
RECURSIVE SplitDot(_)
SplitDot(s) ==
    LET dots == {i \in 1..Len(s) : s[i] = DOT}
        d == CHOOSE i \in dots : \A j \in dots : i <= j
    IN  IF dots = {} THEN <<s>>
        ELSE <<SubSeq(s, 1, d - 1)>> \o SplitDot(SubSeq(s, d + 1, Len(s)))

\* int(part) for a run of decimal digits
RECURSIVE IntOf(_)
IntOf(part) ==
    IF part = <<>> THEN 0
    ELSE 10 * IntOf(SubSeq(part, 1, Len(part) - 1)) + (part[Len(part)] - 48)

\* int(part) raises ValueError (for the characters of the model: anything but a
\* non-empty run of digits)
ValueError(part) == part = <<>> \/ \E i \in 1..Len(part) : ~IsDigit(part[i])

\* lines 178-184
level_to_tuple(level) ==
    IF Falsy(level) THEN <<Sentinel>>
    ELSE LET parts == SplitDot(level)
         IN  IF \E i \in 1..Len(parts) : ValueError(parts[i]) THEN <<Sentinel>>
             ELSE [i \in 1..Len(parts) |-> IntOf(parts[i])]

\* lines 186-192, and the key computed by detached_sort_key (line 262)
SortKey(node) ==
    <<level_to_tuple(node.level_number), Lower(node.label), Lower(node.raw_fragment)>>

\* < on two sort keys: tuples compare component by component
KeyLess(k1, k2) ==
    IF k1[1] # k2[1] THEN SeqLess(k1[1], k2[1])
    ELSE IF k1[2] # k2[2] THEN SeqLess(k1[2], k2[2])
    ELSE SeqLess(k1[3], k2[3])

\* sorted(items, key=...): a stable sort, an item goes after the items already
\* placed whose key is not greater.  KeyOf[x] is the key of item x.
RECURSIVE InsertSorted(_, _, _)
InsertSorted(sorted, x, KeyOf) ==
    IF sorted = <<>> THEN <<x>>
    ELSE IF KeyLess(KeyOf[x], KeyOf[Head(sorted)]) THEN <<x>> \o sorted
    ELSE <<Head(sorted)>> \o InsertSorted(Tail(sorted), x, KeyOf)

RECURSIVE SortedInto(_, _, _)
SortedInto(done, items, KeyOf) ==
    IF items = <<>> THEN done
    ELSE SortedInto(InsertSorted(done, Head(items), KeyOf), Tail(items), KeyOf)

Sorted(items, KeyOf) == SortedInto(<<>>, items, KeyOf)

\* the key of every declared identity
KeysById(ns) == [id \in Keys(ns) |-> SortKey(Get(ns, id))]

\* Iterating a set of str yields its members in an order fixed by the hashes of
\* the process (PYTHONHASHSEED): the order the members have in seed.
IterSet(S, seed) ==
    LET In(x) == x \in S
    IN  SelectSeq(seed, In)

\* lines 194-200
RootsUnsortedFallback(ns, pcount) ==
    LET ids == [i \in DOMAIN ns |-> ns[i].id]
        NoParent(id) == CountOf(pcount, id) = 0
    IN  Sorted(SelectSeq(ids, NoParent), KeysById(ns))

Roots(ns, pcount) ==
    LET ids == [i \in DOMAIN ns |-> ns[i].id]
        NoParent(id) == CountOf(pcount, id) = 0
        rs == Sorted(SelectSeq(ids, NoParent), KeysById(ns))
    IN  IF rs = <<>> THEN Sorted(ids, KeysById(ns)) ELSE rs

\* len(set(edges)), line 235
EdgeCountWithDuplicates(es) == Len(es)

EdgeCount(es) == Cardinality(Range(es))

(***************************************************************************)
(* render: one frame of the recursion per call                             *)
(***************************************************************************)
\* a dict that never carries the "cycle" key
TreeNodeUnflagged(node, children, cycle) ==
    [id |-> node.id, label |-> node.label, raw_fragment |-> node.raw_fragment,
     level_number |-> node.level_number, level_type |-> node.level_type,
     children |-> children]

\* a dict whose "children" are always empty
TreeNodeChildless(node, children, cycle) ==
    IF cycle
    THEN [id |-> node.id, label |-> node.label, raw_fragment |-> node.raw_fragment,
          level_number |-> node.level_number, level_type |-> node.level_type,
          children |-> <<>>, cycle |-> TRUE]
    ELSE [id |-> node.id, label |-> node.label, raw_fragment |-> node.raw_fragment,
          level_number |-> node.level_number, level_type |-> node.level_type,
          children |-> <<>>]

\* lines 206-214 and 225-232: the dict render returns
TreeNode(node, children, cycle) ==
    IF cycle
    THEN [id |-> node.id, label |-> node.label, raw_fragment |-> node.raw_fragment,
          level_number |-> node.level_number, level_type |-> node.level_type,
          children |-> <<>>, cycle |-> TRUE]
    ELSE [id |-> node.id, label |-> node.label, raw_fragment |-> node.raw_fragment,
          level_number |-> node.level_number, level_type |-> node.level_type,
          children |-> children]

\* line 205
OnPathNever(node_id, path) == FALSE

OnPath(node_id, path) == node_id \in path

\* lines 216-217
NextPathForgetful(node_id, path) == path

NextPath(node_id, path) == path \cup {node_id}

\* a frame whose children are read off the edge list, one per edge
FrameFromEdgeList(node_id, path) ==
    IF OnPath(node_id, path)
    THEN [node_id |-> node_id, path |-> path, cycle |-> TRUE, todo |-> <<>>, done |-> <<>>]
    ELSE LET IsMine(e) == e[2] = node_id
             mine == SelectSeq(edges, IsMine)
         IN  [node_id |-> node_id, path |-> NextPath(node_id, path), cycle |-> FALSE,
              todo |-> Sorted([i \in DOMAIN mine |-> mine[i][1]], KeysById(nodes)),
              done |-> <<>>]

\* a frame that leaves out the children rendered before
FrameSkippingSeen(node_id, path) ==
    IF OnPath(node_id, path)
    THEN [node_id |-> node_id, path |-> path, cycle |-> TRUE, todo |-> <<>>, done |-> <<>>]
    ELSE [node_id |-> node_id, path |-> NextPath(node_id, path), cycle |-> FALSE,
          todo |-> Sorted(IterSet(ChildrenOf(children_by_parent, node_id) \ seen, hashseed),
                          KeysById(nodes)),
          done |-> <<>>]

\* the frame of the call render(node_id, path): a cycle leaf returns at once,
\* otherwise the sorted children are still to be rendered
Frame(node_id, path) ==
    IF OnPath(node_id, path)
    THEN [node_id |-> node_id, path |-> path, cycle |-> TRUE, todo |-> <<>>, done |-> <<>>]
    ELSE [node_id |-> node_id, path |-> NextPath(node_id, path), cycle |-> FALSE,
          todo |-> Sorted(IterSet(ChildrenOf(children_by_parent, node_id), hashseed),
                          KeysById(nodes)),
          done |-> <<>>]

(***************************************************************************)
(* run, step by step                                                       *)
(***************************************************************************)
\* line 239: load_source returns the bytes of the document
LoadSource ==
    /\ pc = "load"
    /\ pc' = "parse"
    /\ UNCHANGED <<runvars, arg, ret>>

\* lines 63-75: load_source raises RuntimeError (no file, no answer)
LoadFail ==
    /\ pc = "load"
    /\ pc' = "load_error"
    /\ UNCHANGED <<runvars, arg, ret>>

\* lines 127-130: ET.fromstring raises ParseError, parse_owl raises RuntimeError
ParseFail ==
    /\ pc = "parse"
    /\ ~doc.wellformed
    /\ pc' = "parse_error"
    /\ UNCHANGED <<runvars, arg, ret>>

\* line 240
ParseOwl ==
    /\ pc = "parse"
    /\ doc.wellformed
    /\ LET Assign(parsed) == nodes' = parsed.nodes /\ edges' = parsed.edges
       IN  Assign(parse_owl(doc.classes))
    /\ pc' = "index"
    /\ UNCHANGED <<doc, hashseed, children_by_parent, parent_count, roots, seen, stack,
                   forest, edge_count, out_file, arg, ret>>

\* lines 171-202: build_forest up to the first call of render
BuildIndex ==
    /\ pc = "index"
    /\ children_by_parent' = ChildrenByParent(edges)
    /\ parent_count' = ParentCount(edges)
    /\ roots' = Roots(nodes, ParentCount(edges))
    /\ seen' = {}
    /\ forest' = <<>>
    /\ stack' = <<>>
    /\ pc' = "render"
    /\ UNCHANGED <<doc, hashseed, nodes, edges, edge_count, out_file, arg, ret>>

\* the recursion the model follows (the interpreter stops at 1000 frames)
MaxDepth == 6

\* lines 218: seen.add(node_id), on entering a node that is not on the path
SeenAfter(frame) == IF frame.cycle THEN seen ELSE seen \cup {frame.node_id}

\* line 234: render(root_id, set()) for the next root
RenderRoot ==
    /\ pc = "render"
    /\ stack = <<>>
    /\ Len(forest) < Len(roots)
    /\ LET frame == Frame(roots[Len(forest) + 1], {})
       IN  /\ stack' = <<frame>>
           /\ seen' = SeenAfter(frame)
    /\ UNCHANGED <<pc, doc, hashseed, nodes, edges, children_by_parent, parent_count,
                   roots, forest, edge_count, out_file, arg, ret>>

\* line 231: render(child_id, next_path) for the next child of the top frame
RenderChild ==
    /\ pc = "render"
    /\ stack # <<>>
    /\ Len(stack) < MaxDepth
    /\ LET top == stack[Len(stack)]
       IN  /\ top.todo # <<>>
           /\ LET frame == Frame(Head(top.todo), top.path)
              IN  /\ stack' = Append(stack, frame)
                  /\ seen' = SeenAfter(frame)
    /\ UNCHANGED <<pc, doc, hashseed, nodes, edges, children_by_parent, parent_count,
                   roots, forest, edge_count, out_file, arg, ret>>

\* lines 206-214, 225-232: the top call returns its dict to its caller
RenderReturn ==
    /\ pc = "render"
    /\ stack # <<>>
    /\ LET top == stack[Len(stack)]
           tree == TreeNode(Get(nodes, top.node_id), top.done, top.cycle)
           rest == SubSeq(stack, 1, Len(stack) - 1)
       IN  /\ top.todo = <<>>
           /\ IF rest = <<>>
              THEN /\ forest' = Append(forest, tree)
                   /\ stack' = <<>>
              ELSE /\ forest' = forest
                   /\ stack' = [rest EXCEPT ![Len(rest)] =
                                   [@ EXCEPT !.todo = Tail(@), !.done = Append(@, tree)]]
    /\ UNCHANGED <<pc, doc, hashseed, nodes, edges, children_by_parent, parent_count,
                   roots, seen, edge_count, out_file, arg, ret>>

\* line 235
ReturnForest ==
    /\ pc = "render"
    /\ stack = <<>>
    /\ Len(forest) = Len(roots)
    /\ edge_count' = EdgeCount(edges)
    /\ pc' = "reconcile"
    /\ UNCHANGED <<doc, hashseed, nodes, edges, children_by_parent, parent_count,
                   roots, seen, stack, forest, out_file, arg, ret>>

\* sorted(ids): by code points
RECURSIVE SortedIds(_)
SortedIds(S) ==
    IF S = {} THEN <<>>
    ELSE LET least == CHOOSE x \in S : \A y \in S \ {x} : SeqLess(x, y)
         IN  <<least>> \o SortedIds(S \ {least})

\* lines 243-244, without the difference taken
MissingNone(ns, sn) == <<>>

\* lines 243-244
Missing(ns, sn) == SortedIds(Keys(ns) \ sn)

\* lines 248-257: the detached leaves
DetachedLeaves(ns, missing) ==
    [i \in DOMAIN missing |-> TreeNode(Get(ns, missing[i]), <<>>, FALSE)]

\* line 262 names level_to_tuple, which is defined inside build_forest (line
\* 178) and nowhere in the scope of run or of the module
LevelToTupleInScopeOfRun == FALSE

\* line 264: forest.sort(key=detached_sort_key)
SortForest(f) ==
    LET KeyOf == [i \in DOMAIN f |-> SortKey(f[i])]
    IN  [i \in DOMAIN f |-> f[Sorted([k \in DOMAIN f |-> k], KeyOf)[i]]]

\* lines 243-246, nothing missing
ReconcileCovered ==
    /\ pc = "reconcile"
    /\ Missing(nodes, seen) = <<>>
    /\ pc' = "write"
    /\ UNCHANGED <<runvars, arg, ret>>

\* lines 246-264: the leaves are appended, then the sort calls detached_sort_key
\* and that raises NameError, which leaves the list as it was before the sort
ReconcileDetached ==
    /\ pc = "reconcile"
    /\ Missing(nodes, seen) # <<>>
    /\ seen' = seen \cup Range(Missing(nodes, seen))
    /\ IF LevelToTupleInScopeOfRun
       THEN /\ forest' = SortForest(forest \o DetachedLeaves(nodes, Missing(nodes, seen)))
            /\ pc' = "write"
       ELSE /\ forest' = forest \o DetachedLeaves(nodes, Missing(nodes, seen))
            /\ pc' = "name_error"
    /\ UNCHANGED <<doc, hashseed, nodes, edges, children_by_parent, parent_count,
                   roots, stack, edge_count, out_file, arg, ret>>

\* lines 266-271
Payload ==
    [source |-> "source", node_count |-> Len(nodes), edge_count |-> edge_count,
     roots |-> forest]

\* the step to the check of the labels with the file left unwritten
WriteAfterValidation ==
    /\ pc = "write"
    /\ pc' = "validate"
    /\ UNCHANGED <<runvars, arg, ret>>

\* lines 273-275: out_file is what the file at out_json holds, <<>> while there
\* is no such file
WritePayload ==
    /\ pc = "write"
    /\ out_file' = <<Payload>>
    /\ pc' = "validate"
    /\ UNCHANGED <<doc, hashseed, nodes, edges, children_by_parent, parent_count,
                   roots, seen, stack, forest, edge_count, arg, ret>>

\* line 277
EmptyLabels == {i \in DOMAIN nodes : nodes[i].label = <<>>}

\* lines 278-279: RuntimeError
ValidateFail ==
    /\ pc = "validate"
    /\ EmptyLabels # {}
    /\ pc' = "validation_error"
    /\ UNCHANGED <<runvars, arg, ret>>

\* lines 281-286: the report of success
ReportSuccess ==
    /\ pc = "validate"
    /\ EmptyLabels = {}
    /\ pc' = "done"
    /\ UNCHANGED <<runvars, arg, ret>>

Terminal == {"done", "validation_error", "name_error", "parse_error", "load_error"}

(***************************************************************************)
(* Bounded documents                                                       *)
(***************************************************************************)
MaxRefs == 3
MaxSiblings == 3

\* "x#A", "x#B", "x#C", "x#P"; "x#" has an empty fragment; "y#A" has the
\* fragment of "x#A"; "x#U" is never declared
iA == <<120, HASH, 65>>
iB == <<120, HASH, 66>>
iC == <<120, HASH, 67>>
iP == <<120, HASH, 80>>
iE == <<120, HASH>>
jA == <<121, HASH, 65>>
iU == <<120, HASH, 85>>

\* two iteration orders of sets of identities, one the reverse of the other
HashSeeds == {<<iA, jA, iB, iC, iE, iP>>, <<iP, iE, iC, iB, jA, iA>>}

Malformed == [wellformed |-> FALSE, classes |-> <<>>]

\* a class element without labels and comment
Plain(about, subs) == [about |-> about, labels |-> <<>>, comment |-> None, subs |-> subs]

\* the rdf:about of the three class elements of a document: the third may
\* repeat the first or have none
Abouts == {iB} \X {iA, iE} \X {iC, iB, None}

\* rdf:resource of a subClassOf
RefTargets == {iA, iB, iC, iU, None}

\* the subClassOf elements of a document, in document order: at most MaxRefs
\* targets, each with the class element (1, 2 or 3) it is a child of
Owners(k) == {o \in [1..k -> 1..3] : \A i \in 1..(k - 1) : o[i] <= o[i + 1]}

SubsOf(targets, owner, i) ==
    LET Mine(k) == owner[k] = i
        idx == SelectSeq([k \in DOMAIN targets |-> k], Mine)
    IN  [k \in DOMAIN idx |-> targets[idx[k]]]

GraphDoc(a, t, o) ==
    [wellformed |-> TRUE, classes |-> [i \in 1..3 |-> Plain(a[i], SubsOf(t, o, i))]]

Init ==
    /\ pc = "load"
    /\ \/ doc = Malformed
       \/ \E k \in 0..MaxRefs : \E t \in [1..k -> RefTargets] : \E o \in Owners(k) :
              \E a \in Abouts : doc = GraphDoc(a, t, o)
    /\ hashseed \in HashSeeds
    /\ nodes = <<>> /\ edges = <<>>
    /\ children_by_parent = <<>> /\ parent_count = <<>> /\ roots = <<>>
    /\ seen = {} /\ stack = <<>> /\ forest = <<>> /\ edge_count = 0
    /\ out_file = <<>>
    /\ arg = None /\ ret = None

Next ==
    \/ LoadSource \/ LoadFail \/ ParseFail \/ ParseOwl \/ BuildIndex
    \/ RenderRoot \/ RenderChild \/ RenderReturn \/ ReturnForest
    \/ ReconcileCovered \/ ReconcileDetached
    \/ WritePayload \/ ValidateFail \/ ReportSuccess

Spec == Init /\ [][Next]_vars

\* the statements of run that follow the parse
AfterParse ==
    \/ BuildIndex \/ RenderRoot \/ RenderChild \/ RenderReturn \/ ReturnForest
    \/ ReconcileCovered \/ ReconcileDetached
    \/ WritePayload \/ ValidateFail \/ ReportSuccess

\* the interpreter runs the statements of run one after the other
FairSpec == Spec /\ WF_vars(AfterParse)

(***************************************************************************)
(* build_forest on documents whose classes differ in their sort keys       *)
(***************************************************************************)
\* "Gruppe 2", "Gruppe 10", "Gruppe 2000000000"
cGruppe2 == tyGruppe \o <<SP, 50>>
cGruppe10 == tyGruppe \o <<SP, 49, 48>>
cGruppeBig == tyGruppe \o <<SP, 50, 48, 48, 48, 48, 48, 48, 48, 48, 48>>

SortComments == {None, cGruppe2, cGruppe10, cGruppeBig}

\* the class "x#P", then at most MaxSiblings classes, all of them subclasses of
\* "x#P" (nested) or none of them (not nested)
SortDoc(kids, nested) ==
    [wellformed |-> TRUE,
     classes |-> <<Plain(iP, <<>>)>> \o
                 [i \in DOMAIN kids |->
                    [about |-> kids[i].about, labels |-> <<>>,
                     comment |-> kids[i].comment,
                     subs |-> IF nested THEN <<iP>> ELSE <<>>]]]

InitSort ==
    /\ pc = "parse"
    /\ \E k \in 1..MaxSiblings :
          \E kids \in [1..k -> [about : {iA, jA, iB}, comment : SortComments]] :
             \E nested \in BOOLEAN : doc = SortDoc(kids, nested)
    /\ hashseed \in HashSeeds
    /\ nodes = <<>> /\ edges = <<>>
    /\ children_by_parent = <<>> /\ parent_count = <<>> /\ roots = <<>>
    /\ seen = {} /\ stack = <<>> /\ forest = <<>> /\ edge_count = 0
    /\ out_file = <<>>
    /\ arg = None /\ ret = None

\* parse_owl, then build_forest to its return
NextForest ==
    \/ ParseOwl \/ BuildIndex \/ RenderRoot \/ RenderChild \/ RenderReturn
    \/ ReturnForest

SpecSort == InitSort /\ [][NextForest]_vars

(***************************************************************************)
(* build_forest on documents of four classes                               *)
(***************************************************************************)
MaxFanEdges == 4

\* the classes of the document, in document order
FanClasses == <<iP, iA, iB, iC>>

\* every (child, parent) pair of two different classes
FanPairs == {e \in Range(FanClasses) \X Range(FanClasses) : e[1] # e[2]}

\* the document whose subClassOf elements are the pairs of es
FanDoc(es) ==
    [wellformed |-> TRUE,
     classes |-> [i \in DOMAIN FanClasses |->
                    LET IsParent(id) == <<FanClasses[i], id>> \in es
                    IN  Plain(FanClasses[i], SelectSeq(FanClasses, IsParent))]]

InitFan ==
    /\ pc = "parse"
    /\ \E es \in SUBSET FanPairs : Cardinality(es) <= MaxFanEdges /\ doc = FanDoc(es)
    /\ hashseed \in HashSeeds
    /\ nodes = <<>> /\ edges = <<>>
    /\ children_by_parent = <<>> /\ parent_count = <<>> /\ roots = <<>>
    /\ seen = {} /\ stack = <<>> /\ forest = <<>> /\ edge_count = 0
    /\ out_file = <<>>
    /\ arg = None /\ ret = None

SpecFan == InitFan /\ [][NextForest]_vars

(***************************************************************************)
(* Bounded inputs of the two pure functions                                *)
(***************************************************************************)
MaxTokens == 4
MaxLabels == 2

\* "HAUPTGRUPPE"
upHauptgruppe == [i \in 1..Len(kwHauptgruppe) |-> kwHauptgruppe[i] - 32]

\* pieces of comments: Gruppe, Untergruppe, HAUPTGRUPPE, " ", tab, "5", ".1", ".", "a"
CommentTokens ==
    {tyGruppe, tyUntergruppe, upHauptgruppe, <<SP>>, <<TAB>>, <<53>>, <<DOT, 49>>,
     <<DOT>>, <<97>>}

\* xml:lang values: absent, "de", "DE", "en"
LabelLangs == {None, langDe, <<68, 69>>, <<101, 110>>}

\* label texts: absent, " ", "Ur", " f "
LabelTexts == {None, <<SP>>, <<85, 114>>, <<SP, 102, SP>>}

\* identities: "x#A_b", "x/A/", "x#", "x/a#b/", "A", "x/_a_//", "x#a#b c"
LabelIris ==
    {<<120, HASH, 65, USCORE, 98>>, <<120, SLASH, 65, SLASH>>, <<120, HASH>>,
     <<120, SLASH, 97, HASH, 98, SLASH>>, <<65>>,
     <<120, SLASH, USCORE, 97, USCORE, SLASH, SLASH>>,
     <<120, HASH, 97, HASH, 98, SP, 99>>}

(***************************************************************************)
(* The pure functions applied to bounded inputs                            *)
(***************************************************************************)
\* the state of a run that has not started: what the function specifications
\* leave untouched
Idle ==
    /\ doc = <<>> /\ hashseed = <<>> /\ nodes = <<>> /\ edges = <<>>
    /\ children_by_parent = <<>> /\ parent_count = <<>> /\ roots = <<>>
    /\ seen = {} /\ stack = <<>> /\ forest = <<>> /\ edge_count = 0
    /\ out_file = <<>>

\* a comment of at most MaxTokens pieces, or no comment
InitLevel ==
    /\ Idle
    /\ pc = "level_call"
    /\ \/ arg = None
       \/ \E k \in 0..MaxTokens : \E ts \in [1..k -> CommentTokens] : arg = Concat(ts)
    /\ ret = None

ApplyLevel ==
    /\ pc = "level_call"
    /\ ret' = extract_level_metadata(arg)
    /\ pc' = "level_return"
    /\ UNCHANGED <<runvars, arg>>

NextLevel == ApplyLevel

SpecLevel == InitLevel /\ [][NextLevel]_vars

\* a class element with at most MaxLabels labels
InitLabel ==
    /\ Idle
    /\ pc = "label_call"
    /\ \E k \in 0..MaxLabels : \E ls \in [1..k -> [lang : LabelLangs, text : LabelTexts]] :
          \E iri \in LabelIris : arg = [labels |-> ls, iri |-> iri]
    /\ ret = None

\* parse_owl, lines 146-147: the fragment, then the label
ApplyLabel ==
    /\ pc = "label_call"
    /\ ret' = parse_preferred_label(arg.labels, extract_fragment(arg.iri))
    /\ pc' = "label_return"
    /\ UNCHANGED <<runvars, arg>>

NextLabel == ApplyLabel

SpecLabel == InitLabel /\ [][NextLabel]_vars

(***************************************************************************)
(* What the properties below speak of                                      *)
(***************************************************************************)
\* the identities of the tree nodes of a tree, of a forest
RECURSIVE TreeIds(_)
TreeIds(tree) ==
    {tree.id} \cup UNION {TreeIds(tree.children[i]) : i \in DOMAIN tree.children}

ForestIds(f) == UNION {TreeIds(f[i]) : i \in DOMAIN f}

RECURSIVE SumOf(_)
SumOf(ns) == IF ns = <<>> THEN 0 ELSE Head(ns) + SumOf(Tail(ns))

\* the number of tree nodes of a tree, of a forest, whose identity is id
RECURSIVE Occurrences(_, _)
Occurrences(tree, id) ==
    (IF tree.id = id THEN 1 ELSE 0)
    + SumOf([i \in DOMAIN tree.children |-> Occurrences(tree.children[i], id)])

OccurrencesIn(f, id) == SumOf([i \in DOMAIN f |-> Occurrences(f[i], id)])

\* the number of tree nodes flagged cycle
RECURSIVE CycleFlags(_)
CycleFlags(tree) ==
    (IF "cycle" \in DOMAIN tree THEN 1 ELSE 0)
    + SumOf([i \in DOMAIN tree.children |-> CycleFlags(tree.children[i])])

CycleFlagsIn(f) == SumOf([i \in DOMAIN f |-> CycleFlags(f[i])])

\* the parents of id, and everything above a set of identities, along the edges
ParentsOf(id) == {e[2] : e \in {x \in Range(edges) : x[1] = id}}

RECURSIVE Above(_)
Above(S) ==
    LET T == S \cup UNION {ParentsOf(id) : id \in S}
    IN  IF T = S THEN S ELSE Above(T)

Acyclic == \A id \in Keys(nodes) : id \notin Above(ParentsOf(id))

\* a clean forest: no node has two parents, no node is above itself
CleanForest == Acyclic /\ \A id \in Keys(nodes) : Cardinality(ParentsOf(id)) <= 1

\* the document as the properties read it: the declared identities, the raw
\* (child, parent) pairs and those with both ends declared
Declared == {doc.classes[i].about : i \in {k \in DOMAIN doc.classes : ~Falsy(doc.classes[k].about)}}

RawPairs ==
    UNION {{<<doc.classes[i].about, doc.classes[i].subs[j]>> :
              j \in {k \in DOMAIN doc.classes[i].subs : ~Falsy(doc.classes[i].subs[k])}} :
           i \in {k \in DOMAIN doc.classes : ~Falsy(doc.classes[k].about)}}

ValidPairs == {e \in RawPairs : e[1] \in Declared /\ e[2] \in Declared}

\* every child in the tree is a child by a valid pair
RECURSIVE ChildrenWithin(_, _)
ChildrenWithin(tree, pairs) ==
    \A i \in DOMAIN tree.children :
        /\ <<tree.children[i].id, tree.id>> \in pairs
        /\ ChildrenWithin(tree.children[i], pairs)

AfterBuild == {"reconcile", "write", "validate", "done", "validation_error", "name_error"}

AfterReconcile == AfterBuild \ {"reconcile"}

(***************************************************************************)
(* C1                                                                      *)
(***************************************************************************)
\* C1: once the reconciliation step of run has acted (nothing was missing, or
\* the missing identities were appended as detached leaves), the identities of
\* the tree nodes of the forest are exactly the declared identities.
C1_Completeness ==
    pc \in AfterReconcile => ForestIds(forest) = Keys(nodes) /\ seen = Keys(nodes)

\* three declared nodes, a tree with a child, and a detached leaf appended
C1_Witness ==
    /\ pc = "name_error"
    /\ Cardinality(Keys(nodes)) = 3
    /\ Len(forest) > Len(roots)
    /\ \E i \in DOMAIN forest : forest[i].children # <<>>

(***************************************************************************)
(* C2                                                                      *)
(***************************************************************************)
\* C2 as stated: in the forest written by run, every declared identity is the
\* identity of exactly one tree node.
C2_ExactlyOnce ==
    out_file # <<>> =>
        \A id \in Keys(nodes) : OccurrencesIn(out_file[1].roots, id) = 1

\* C2 as amended: in the forest written by run, every declared identity is the
\* identity of at least one tree node, and of exactly one when the valid edges
\* form a clean forest (no node with two parents, no cycle).
C2_AtLeastOnce ==
    out_file # <<>> =>
        \A id \in Keys(nodes) :
            /\ OccurrencesIn(out_file[1].roots, id) >= 1
            /\ CleanForest => OccurrencesIn(out_file[1].roots, id) = 1

\* a written forest in which a node with two parents is rendered twice
C2_Witness ==
    /\ out_file # <<>>
    /\ Acyclic
    /\ \E id \in Keys(nodes) :
          Cardinality(ParentsOf(id)) = 2 /\ OccurrencesIn(out_file[1].roots, id) = 2

(***************************************************************************)
(* C3                                                                      *)
(***************************************************************************)
\* C3: the recursion of render is never deeper than |N| + 1 calls, and the
\* rendering started by build_forest comes to its return.
C3_RenderTerminates ==
    /\ [](Len(stack) <= Cardinality(Keys(nodes)) + 1)
    /\ (pc = "render") ~> (pc = "reconcile")

\* the deepest recursion: three nodes on the path and the cycle leaf below
C3_Witness ==
    /\ pc = "render"
    /\ Cardinality(Keys(nodes)) = 3
    /\ Len(stack) = 4
    /\ stack[4].cycle

(***************************************************************************)
(* C4                                                                      *)
(***************************************************************************)
\* N = {a, b, c} with the edges (a,b), (b,c), (c,a) and nothing else
ThreeCycle ==
    /\ Cardinality(Keys(nodes)) = 3
    /\ Len(edges) = 3
    /\ \E a, b, c \in Keys(nodes) :
          /\ a # b /\ b # c /\ a # c
          /\ Range(edges) = {<<a, b>>, <<b, c>>, <<c, a>>}

RootedAtAll == Len(forest) = Len(nodes) /\ {forest[i].id : i \in DOMAIN forest} = Keys(nodes)

AllDetached ==
    /\ roots = <<>>
    /\ Len(forest) = Len(nodes)
    /\ \A i \in DOMAIN forest : forest[i].children = <<>> /\ "cycle" \notin DOMAIN forest[i]

C7_EdgeFiltering ==
    pc \in AfterBuild =>
        /\ edge_count = Cardinality(ValidPairs)
        /\ \A i \in DOMAIN forest : ChildrenWithin(forest[i], ValidPairs)

\* "x#B" names "x#A" twice, which is declared after it, and "x#U", which is not
C7_Witness ==
    /\ pc = "reconcile"
    /\ doc.classes[1].subs = <<iA, iA, iU>>
    /\ doc.classes[2].about = iA
    /\ edge_count = 1
    /\ \E i \in DOMAIN forest : forest[i].id = iA /\ forest[i].children # <<>>

(***************************************************************************)
(* C8                                                                      *)
(***************************************************************************)
\* C8: a run with a node whose label is empty ends with the validation error,
\* raised after the payload was computed and written.
C8_EmptyLabelFails ==
    (pc \in Terminal /\ EmptyLabels # {}) =>
        pc = "validation_error" /\ out_file = <<Payload>>

(***************************************************************************)
(* C5                                                                      *)
(***************************************************************************)
\* the tree build_forest returns for node_id when sets iterate in the order seed
RECURSIVE TreeUnder(_, _, _)
TreeUnder(node_id, path, seed) ==
    IF node_id \in path THEN TreeNode(Get(nodes, node_id), <<>>, TRUE)
    ELSE LET kids == Sorted(IterSet(ChildrenOf(ChildrenByParent(edges), node_id), seed),
                            KeysById(nodes))
         IN  TreeNode(Get(nodes, node_id),
                      [i \in DOMAIN kids |-> TreeUnder(kids[i], path \cup {node_id}, seed)],
                      FALSE)

ForestUnder(seed) ==
    LET rs == Roots(nodes, ParentCount(edges))
    IN  [i \in DOMAIN rs |-> TreeUnder(rs[i], {}, seed)]

\* C5: the forest build_forest returns is the one it returns on the same nodes
\* and edges under every other iteration order of the child sets.
C5_Deterministic ==
    pc = "reconcile" => \A seed \in HashSeeds : forest = ForestUnder(seed)

(***************************************************************************)
(* C6                                                                      *)
(***************************************************************************)
\* a tree node has a level-number
Leveled(tree) == ~Falsy(tree.level_number)

\* the level-number as a tuple of integers
LevelTuple(tree) ==
    LET parts == SplitDot(tree.level_number)
    IN  [i \in DOMAIN parts |-> IntOf(parts[i])]

\* t1 comes strictly before t2 by the composite key, a node without a
\* level-number after every node that has one
ComesBefore(t1, t2) ==
    IF Leveled(t1) # Leveled(t2) THEN Leveled(t1)
    ELSE IF Leveled(t1) /\ LevelTuple(t1) # LevelTuple(t2)
         THEN SeqLess(LevelTuple(t1), LevelTuple(t2))
    ELSE IF Lower(t1.label) # Lower(t2.label)
         THEN SeqLess(Lower(t1.label), Lower(t2.label))
    ELSE SeqLess(Lower(t1.raw_fragment), Lower(t2.raw_fragment))

RECURSIVE Ordered(_)
Ordered(trees) ==
    /\ \A i, j \in DOMAIN trees : i < j => ~ComesBefore(trees[j], trees[i])
    /\ \A i \in DOMAIN trees : Ordered(trees[i].children)

\* C6: the root list and every children list of the forest build_forest returns
\* are ordered by the composite key, nodes without a level-number last.
C6_SortOrder == pc = "reconcile" => Ordered(forest)

(***************************************************************************)
(* C9                                                                      *)
(***************************************************************************)
\* the whitespace-normalized comment
Normalized(comment) == JoinSpace(SplitWS(IF Falsy(comment) THEN <<>> ELSE comment))

Keywords == {kwHauptgruppe, kwGruppe, kwUntergruppe}

Canonical(kw) ==
    IF kw = kwHauptgruppe THEN tyHauptgruppe
    ELSE IF kw = kwUntergruppe THEN tyUntergruppe
    ELSE tyGruppe

\* the keyword that stands at position p of s, in any casing
KeywordAt(s, p) == CHOOSE kw \in Keywords : LiteralAt(s, p, kw)

\* where the digits begin after the keyword at p and the whitespace behind it
NumberStart(s, p) == SpaceRunEnd(s, p + Len(KeywordAt(s, p))) + 1

\* the end of the longest dot-separated run of digits that begins at position p
\* (p - 1 when no digit stands there)
RECURSIVE DottedRunFrom(_, _)
DottedRunFrom(s, e) ==
    IF e + 2 <= Len(s) /\ s[e + 1] = DOT /\ IsDigit(s[e + 2])
    THEN DottedRunFrom(s, DigitRunEnd(s, e + 2))
    ELSE e

DottedRunEnd(s, p) ==
    IF DigitRunEnd(s, p) < p THEN p - 1 ELSE DottedRunFrom(s, DigitRunEnd(s, p))

\* the positions of s where a keyword is followed by a dot-separated run of digits
KeywordOccurrences(s) ==
    {p \in 1..Len(s) :
        /\ \E kw \in Keywords : LiteralAt(s, p, kw)
        /\ DottedRunEnd(s, NumberStart(s, p)) >= NumberStart(s, p)}

Least(S) == CHOOSE x \in S : \A y \in S : x <= y

Greatest(S) == CHOOSE x \in S : \A y \in S : y <= x

LevelAsStated(s) ==
    IF KeywordOccurrences(s) = {} THEN <<None, None>>
    ELSE LET p == Least(KeywordOccurrences(s))
         IN  <<SubSeq(s, NumberStart(s, p), DottedRunEnd(s, NumberStart(s, p))),
               Canonical(KeywordAt(s, p))>>

\* C9 as stated: extract_level_metadata returns the digits, verbatim, and the
\* canonical type of the first keyword of the normalized comment that is
\* followed by a dot-separated run of digits, (None, None) when there is none.
C9_FirstOccurrence ==
    pc = "level_return" => ret = LevelAsStated(Normalized(arg))

\* the ends a number beginning at position p may have: it ends in a digit of the
\* dot-separated run, and at a word boundary
NumberEnds(s, p) ==
    {e \in p..DottedRunEnd(s, p) : IsDigit(s[e]) /\ WordBoundary(s, e + 1)}

\* the positions where a keyword begins at a word boundary and a number follows
BoundedOccurrences(s) ==
    {p \in 1..Len(s) :
        /\ WordBoundary(s, p)
        /\ \E kw \in Keywords : LiteralAt(s, p, kw)
        /\ NumberEnds(s, NumberStart(s, p)) # {}}

LevelAsAmended(s) ==
    IF BoundedOccurrences(s) = {} THEN <<None, None>>
    ELSE LET p == Least(BoundedOccurrences(s))
         IN  <<SubSeq(s, NumberStart(s, p), Greatest(NumberEnds(s, NumberStart(s, p)))),
               Canonical(KeywordAt(s, p))>>

\* "Untergruppe 5.1"
cUntergruppe51 == tyUntergruppe \o <<SP, 53, DOT, 49>>

\* C9 as amended: extract_level_metadata returns the number and the canonical
\* type of the first keyword of the normalized comment that begins at a word
\* boundary and is followed, after optional whitespace, by a number; the number
\* is the longest part of the dot-separated run of digits that ends in a digit
\* and at a word boundary; (None, None) when there is no such keyword.  The
\* comment "Untergruppe 5.1" is an Untergruppe.
C9_LevelParsing ==
    pc = "level_return" =>
        /\ ret = LevelAsAmended(Normalized(arg))
        /\ arg = cUntergruppe51 => ret = <<<<53, DOT, 49>>, tyUntergruppe>>

\* "Untergruppe 5.1" parsed
C9_Witness ==
    /\ pc = "level_return"
    /\ arg = cUntergruppe51
    /\ ret = <<<<53, DOT, 49>>, tyUntergruppe>>

(***************************************************************************)
(* C10                                                                     *)
(***************************************************************************)
\* a text without the whitespace around it
Trimmed(text) ==
    LET inked == {i \in 1..Len(text) : ~IsSpace(text[i])}
    IN  IF inked = {} THEN <<>> ELSE SubSeq(text, Least(inked), Greatest(inked))

NonBlank(lbl) == ~Falsy(lbl.text) /\ Trimmed(lbl.text) # <<>>

\* the language is "de" in any casing
German(lbl) ==
    /\ ~Falsy(lbl.lang)
    /\ Len(lbl.lang) = 2
    /\ lbl.lang[1] \in {100, 68}
    /\ lbl.lang[2] \in {101, 69}

\* the text after the last c of s, all of s when c does not occur in s
TextAfterLast(s, c) ==
    LET k == Greatest({0} \cup {i \in 1..Len(s) : s[i] = c})
    IN  SubSeq(s, k + 1, Len(s))

\* s without the slashes at its end
WithoutTrailingSlashes(s) ==
    SubSeq(s, 1, Greatest({0} \cup {i \in 1..Len(s) : s[i] # SLASH}))

FragmentOf(iri) ==
    IF HASH \in Range(iri) THEN TextAfterLast(iri, HASH)
    ELSE TextAfterLast(WithoutTrailingSlashes(iri), SLASH)

Humanized(fragment) ==
    Trimmed([i \in DOMAIN fragment |-> IF fragment[i] = USCORE THEN SP ELSE fragment[i]])

LabelAsStated(labels, iri) ==
    LET german == {i \in DOMAIN labels : German(labels[i]) /\ NonBlank(labels[i])}
        any == {i \in DOMAIN labels : NonBlank(labels[i])}
    IN  IF german # {} THEN Trimmed(labels[Least(german)].text)
        ELSE IF any # {} THEN Trimmed(labels[Least(any)].text)
        ELSE Humanized(FragmentOf(iri))

\* C10: the label of a class is the trimmed text of its first non-blank label
\* in German ("de" in any casing), else that of its first non-blank label, else
\* its humanized fragment.
C10_LabelSelection ==
    pc = "label_return" => ret = LabelAsStated(arg.labels, arg.iri)

\* a blank-free English label first, the German one ("DE") is chosen
C10_Witness ==
    /\ pc = "label_return"
    /\ arg.labels = <<[lang |-> <<101, 110>>, text |-> <<SP, 102, SP>>],
                      [lang |-> <<68, 69>>, text |-> <<85, 114>>]>>
    /\ ret = <<85, 114>>

(***************************************************************************)
(* C11                                                                     *)
(***************************************************************************)
\* leaves were appended to the forest build_forest returned
LeavesAppended == Len(forest) > Len(roots)

\* a standalone leaf: no children, no cycle key
StandaloneLeaf(tree) == tree.children = <<>> /\ "cycle" \notin DOMAIN tree

\* a top-level list in the order of the composite key
KeyOrdered(f) ==
    \A i, j \in DOMAIN f : i < j => ~KeyLess(SortKey(f[j]), SortKey(f[i]))

\* C11: when identities were missing from seen, run appends them as standalone
\* leaves, sorts the top level by the composite key, and goes on to write the
\* payload whose roots is that sorted list.
C11_Reconciliation ==
    (pc \in AfterReconcile /\ LeavesAppended) =>
        /\ pc # "name_error"
        /\ Cardinality({i \in DOMAIN forest : StandaloneLeaf(forest[i])})
              >= Len(forest) - Len(roots)
        /\ KeyOrdered(forest)
        /\ out_file # <<>> => out_file[1].roots = forest

(***************************************************************************)
(* C12                                                                     *)
(***************************************************************************)
\* the declared identities that are the child of no valid pair of the document
Parentless == {id \in Declared : ~\E e \in ValidPairs : e[1] = id}

\* C12: the root list of build_forest holds, each once, the declared identities
\* without an incoming valid edge when there are any, and all the declared
\* identities when there are none; a node with a parent is a root only then.
C12_RootsAndFallback ==
    pc \in {"render"} \cup AfterBuild =>
        /\ Len(roots) = Cardinality(Range(roots))
        /\ Range(roots) = IF Parentless # {} THEN Parentless ELSE Declared
        /\ (\E id \in Range(roots) : id \notin Parentless) => Parentless = {}

\* a self-loop beside a root: the node on the cycle is not rooted
C12_Witness ==
    /\ pc = "render"
    /\ Len(roots) = 1
    /\ \E id \in Keys(nodes) : id \in ParentsOf(id) /\ id \notin Range(roots)
    /\ Cardinality(Keys(nodes)) >= 2

(***************************************************************************)
(* C13                                                                     *)
(***************************************************************************)
Flagged(tree) == "cycle" \in DOMAIN tree

\* the rule below tree, whose proper ancestors have the identities ancestors:
\* flagged exactly when the identity is an ancestor's, and then without children
RECURSIVE CycleRule(_, _)
CycleRule(tree, ancestors) ==
    /\ Flagged(tree) <=> tree.id \in ancestors
    /\ Flagged(tree) => tree.cycle = TRUE /\ tree.children = <<>>
    /\ \A i \in DOMAIN tree.children :
          CycleRule(tree.children[i], ancestors \cup {tree.id})

\* the number of tree nodes with identity id that are not flagged
RECURSIVE Unflagged(_, _)
Unflagged(tree, id) ==
    (IF tree.id = id /\ ~Flagged(tree) THEN 1 ELSE 0)
    + SumOf([i \in DOMAIN tree.children |-> Unflagged(tree.children[i], id)])

\* C13: in every tree build_forest returns, a tree node is flagged cycle exactly
\* when its identity is that of one of its proper ancestors, a flagged node has
\* no children, and so the unflagged nodes of a path have distinct identities.
C13_CycleRule ==
    pc \in {"render"} \cup AfterBuild =>
        \A i \in DOMAIN forest : CycleRule(forest[i], {})

\* a forest with a flagged leaf in which a node reached along two branches
\* (below another node and as a root of its own) is rendered twice, unflagged
C13_Witness ==
    /\ pc = "reconcile"
    /\ CycleFlagsIn(forest) >= 1
    /\ \E id \in Keys(nodes) :
          SumOf([i \in DOMAIN forest |-> Unflagged(forest[i], id)]) >= 2

(***************************************************************************)
(* C14                                                                     *)
(***************************************************************************)
\* the number of paths along child edges from a node without parents down to
\* id, in an acyclic graph
RECURSIVE PathCount(_)
PathCount(id) ==
    IF ParentsOf(id) = {} THEN 1
    ELSE LET ps == SortedIds(ParentsOf(id))
         IN  SumOf([i \in DOMAIN ps |-> PathCount(ps[i])])

\* the subtrees of a tree, of a forest, whose root has the identity id
RECURSIVE SubtreesAt(_, _)
SubtreesAt(tree, id) ==
    (IF tree.id = id THEN {tree} ELSE {})
    \cup UNION {SubtreesAt(tree.children[i], id) : i \in DOMAIN tree.children}

SubtreesIn(f, id) == UNION {SubtreesAt(f[i], id) : i \in DOMAIN f}

\* C14: when the edges are acyclic, every node is rendered once for every path
\* from a root down to it, every time with the same subtree, one child for each
\* of its children, and it is a member of seen.
C14_FanOut ==
    (pc = "reconcile" /\ Acyclic) =>
        \A id \in Keys(nodes) :
            /\ OccurrencesIn(forest, id) = PathCount(id)
            /\ Cardinality(SubtreesIn(forest, id)) = 1
            /\ \A t \in SubtreesIn(forest, id) :
                  {t.children[i].id : i \in DOMAIN t.children}
                     = {c \in Keys(nodes) : id \in ParentsOf(c)}
            /\ id \in seen /\ seen \subseteq Keys(nodes)

\* "x#B" has the parents "x#P" and "x#A", itself a child of "x#P", and the child
\* "x#C": it is rendered twice, both times above "x#C"
C14_Witness ==
    /\ pc = "reconcile"
    /\ Acyclic
    /\ Cardinality(ParentsOf(iB)) = 2
    /\ PathCount(iB) = 2
    /\ OccurrencesIn(forest, iB) = 2
    /\ \A t \in SubtreesIn(forest, iB) : Len(t.children) = 1 /\ t.children[1].id = iC

(***************************************************************************)
(* C15                                                                     *)
(***************************************************************************)
\* the children of p by the valid pairs of the document
KidsOf(p) == {e[1] : e \in {x \in ValidPairs : x[2] = p}}

\* below every unflagged node of the tree: one child for each of its children
RECURSIVE ChildRule(_)
ChildRule(tree) ==
    /\ ~Flagged(tree) =>
          /\ Len(tree.children) = Cardinality(KidsOf(tree.id))
          /\ {tree.children[i].id : i \in DOMAIN tree.children} = KidsOf(tree.id)
    /\ \A i \in DOMAIN tree.children : ChildRule(tree.children[i])

\* S and everything below it along the child edges
RECURSIVE Below(_)
Below(S) ==
    LET T == S \cup UNION {KidsOf(id) : id \in S}
    IN  IF T = S THEN S ELSE Below(T)

\* C15: every unflagged node of the trees build_forest returns has exactly one
\* child for each identity that is its child by an edge, however often the pair
\* occurs, and no other; seen is what the roots reach along the child edges.
C15_Structure ==
    pc = "reconcile" =>
        /\ \A i \in DOMAIN forest : ChildRule(forest[i])
        /\ seen = Below(Range(roots))

\* "x#B" names its parent "x#A" twice and is rendered once below it; "x#C", its
\* own parent, is not reached from the root
C15_Witness ==
    /\ pc = "reconcile"
    /\ doc.classes[1].subs = <<iA, iA>>
    /\ doc.classes[3].subs = <<iC>>
    /\ Len(edges) = 3
    /\ \E i \in DOMAIN forest : forest[i].id = iA /\ Len(forest[i].children) = 1
    /\ seen = {iA, iB}
    /\ seen # Keys(nodes)

(***************************************************************************)
(* C16                                                                     *)
(***************************************************************************)
\* the identities of the nodes whose label is empty
EmptyLabelled == {nodes[i].id : i \in EmptyLabels}

\* C16: the file is written before the labels are checked: when they are being
\* checked, and after, it holds the payload; a run that ended with the
\* validation error left the payload with the nodes of empty label in the file;
\* a run that failed on a malformed document, or has not come to the write,
\* left no file.
C16_WriteBeforeValidation ==
    /\ pc \in {"validate", "validation_error", "done"} => out_file = <<Payload>>
    /\ pc = "validation_error" =>
          /\ EmptyLabelled # {}
          /\ \A id \in EmptyLabelled : OccurrencesIn(out_file[1].roots, id) >= 1
    /\ pc \in {"parse_error", "load_error"} => out_file = <<>>
    /\ out_file # <<>> => pc \in {"validate", "validation_error", "done"}

\* a run that ended with the validation error: "x#" is in the file
C16_Witness ==
    /\ pc = "validation_error"
    /\ out_file # <<>>
    /\ OccurrencesIn(out_file[1].roots, iE) >= 1
    /\ out_file[1].node_count = 3

=============================================================================
